---- MODULE Spec2Model ----
(***************************************************************************)
(* Workflow orchestration of the Analyze page                              *)
(* (src/frontend-updated/src/pages/Analyze.tsx).                           *)
(*                                                                         *)
(* The React component is modelled as a state machine.  Its useState /     *)
(* useRef cells are the variables named as in the source, the react-query  *)
(* client is the artifact cache, each useMutation is a set of outstanding  *)
(* requests, and every event handler / mutation callback is one action.    *)
(* An action applies the handler's state updates and then runs the         *)
(* component's effects (useEffect) to quiescence, as React does after the  *)
(* commit that follows the handler.                                        *)
(*                                                                         *)
(* Library behaviour the component relies on:                              *)
(*  - effects of one commit run in declaration order, each with the state  *)
(*    of that render; their setState calls are applied in call order;      *)
(*  - a pending mutation runs the callbacks of the latest render           *)
(*    (useMutation refreshes the options of the observer's current         *)
(*    mutation after every render), so docId / selectedTemplate /          *)
(*    chatHistory read inside onSuccess are the values at response time;   *)
(*    a mutation the observer has left keeps the callbacks it had then;    *)
(*  - useQuery keeps the identity of `data` when a refetch returns an      *)
(*    equal payload (structural sharing), so an effect depending on        *)
(*    documentStatus re-runs only when the payload differs.                *)
(***************************************************************************)
EXTENDS Integers, Sequences, FiniteSets, Bags, TLC

(***************************************************************************)
(* Bounds of the model                                                     *)
(***************************************************************************)
\* document changes in one behaviour
MaxSwitches == 2
\* template selections in one behaviour
MaxSelects == 1
\* outstanding requests of one mutation
MaxOutstanding == 2
\* chat turns in the transcript
MaxChat == 3
\* document changes in one behaviour of the content generation slice
MaxContentSwitches == 1

Docs == {"d1", "d2"}
Templates == {"tA", "tB"}
NoTemplate == ""
TemplateValues == Templates \cup {NoTemplate}

\* DocumentStatus.status values the service reports, in processing order
Statuses == {"pending", "processing", "processed", "error"}
NoStatus == "undefined"
Terminal == {"processed", "error"}

StatusRank(s) ==
  CASE s = NoStatus -> 0
    [] s = "pending" -> 1
    [] s = "uploading" -> 2
    [] s = "processing" -> 3
    [] OTHER -> 4

\* topic texts as the service sends them; "" is a topic without text
RawTexts == {"", "A"}

\* Topic.id as the service sends it; 0 is a topic without id
NoId == 0
UnnamedTopic == "Unnamed Topic"

\* generateTopicsMutation.onSuccess: text: topic.text || "Unnamed Topic"
TopicText(raw) == IF raw = "" THEN UnnamedTopic ELSE raw

Keys == {TopicText(r) : r \in RawTexts}

\* "no content" in a content map or under a content cache key
Undefined == "undefined"

\* content strings; "" is falsy in the source's `if (content)` tests
Contents == {"", "c"}

Truthy(v) == v # Undefined /\ v # ""

\* scopeData === null, and getQueryData finding no scope
Null == [doc |-> "", confirmed |-> FALSE]

\* a cache entry holding a sequence (topics, chat turns); NotCached is
\* getQueryData returning undefined
Cached(v) == [cached |-> TRUE, value |-> v]
NotCached == [cached |-> FALSE, value |-> <<>>]

EmptyContent == [k \in Keys |-> Undefined]

VARIABLES
  docId,
  selectedTemplate,
  analysisStep,
  scopeData,
  generatedTopics,
  generatedContent,
  contentLoadingState,
  chatHistory,
  isBatchGeneratingRef,
  isGeneratingAll,
  isModalOpen,
  currentTopicForModal,
  modalContent,
  documentStatus,
  statusFetch,
  scopeCache,
  topicsCache,
  contentCache,
  chatCache,
  mutations,
  batch,
  issued,
  toast,
  succeeded,
  switches,
  selects

vars == <<docId, selectedTemplate, analysisStep, scopeData, generatedTopics,
          generatedContent, contentLoadingState, chatHistory,
          isBatchGeneratingRef, isGeneratingAll, isModalOpen,
          currentTopicForModal, modalContent, documentStatus, statusFetch,
          scopeCache, topicsCache, contentCache, chatCache, mutations, batch,
          issued, toast, succeeded, switches, selects>>

\* the topic editor: isModalOpen, currentTopicForModal, modalContent
modalVars == <<isModalOpen, currentTopicForModal, modalContent>>

\* currentTopicForModal === null
NullTopic == [id |-> NoId, text |-> ""]

\* no toast shown by a step
NoToast == ""

NoCall == [op |-> "none", doc |-> "", tpl |-> "", text |-> ""]

Call(o, d, t, k) == [op |-> o, doc |-> d, tpl |-> t, text |-> k]

\* The run of handleGenerateAllContent: what its closure holds (topics,
\* content, loading), where its loop stands (idx, count), and a record of the
\* run for the properties: n topics, k of them with content and `clean`
\* (nothing in flight) at invocation, sw the document switches so far,
\* calls issued, done once the loop has run off the list.
NoBatch ==
  [active |-> FALSE, idx |-> 0, topics |-> <<>>, content |-> {},
   loading |-> {}, count |-> 0, calls |-> 0, n |-> 0, k |-> 0,
   clean |-> FALSE, sw |-> 0, done |-> FALSE]

\* the record left when the loop of run b ends with `count` successes
Finished(b, count) ==
  [NoBatch EXCEPT !.count = count, !.calls = b.calls, !.n = b.n, !.k = b.k,
                  !.clean = b.clean, !.sw = b.sw, !.done = TRUE]

(***************************************************************************)
(* The state a render closes over and the effects may update.              *)
(***************************************************************************)
Local ==
  [docId |-> docId, selectedTemplate |-> selectedTemplate,
   analysisStep |-> analysisStep, scopeData |-> scopeData,
   generatedTopics |-> generatedTopics, generatedContent |-> generatedContent,
   chatHistory |-> chatHistory]

SetLocal(n) ==
  /\ docId' = n.docId
  /\ selectedTemplate' = n.selectedTemplate
  /\ analysisStep' = n.analysisStep
  /\ scopeData' = n.scopeData
  /\ generatedTopics' = n.generatedTopics
  /\ generatedContent' = n.generatedContent
  /\ chatHistory' = n.chatHistory

\* useEffect(..., [documentStatus, queryClient, docId]); c is the render's
\* closure, s the state the setters have produced so far in this commit
useEffectDocumentStatus(c, s, status, sc) ==
  IF status = NoStatus THEN s
  ELSE IF status = "processed" THEN
    LET existingScope == sc[c.docId] IN
    IF existingScope # Null /\ existingScope.confirmed
      THEN [s EXCEPT !.scopeData = existingScope, !.analysisStep = 3]
    ELSE IF existingScope # Null
      THEN [s EXCEPT !.scopeData = existingScope, !.analysisStep = 2]
    ELSE [s EXCEPT !.analysisStep = 2]
  ELSE IF status = "processing" \/ status = "uploading"
    THEN [s EXCEPT !.analysisStep = 1]
  ELSE [s EXCEPT !.analysisStep = 0]

\* useEffect(..., [docId, queryClient]): the per-document reset
useEffectDocId(s) ==
  [s EXCEPT !.analysisStep = 0, !.scopeData = Null, !.generatedTopics = <<>>,
            !.generatedContent = EmptyContent, !.chatHistory = <<>>]

\* the cachedContent object built by the forEach of the template effect
CachedContentOf(d, t, topics, cc) ==
  [k \in Keys |->
     IF (\E i \in 1..Len(topics) : topics[i].text = k) /\ Truthy(cc[<<d, t, k>>])
       THEN cc[<<d, t, k>>] ELSE Undefined]

\* a bug: without a template the page always goes back to the scope step
FallbackStep_ScopePending(scope) == IF scope # Null THEN 2 ELSE 0

\* if (scopeData?.is_confirmed) setAnalysisStep(3);
\* else if (scopeData) setAnalysisStep(2); else setAnalysisStep(0);
FallbackStep(scope) ==
  IF scope # Null /\ scope.confirmed THEN 3
  ELSE IF scope # Null THEN 2
  ELSE 0

\* useEffect(..., [docId, selectedTemplate, analysisStep, scopeData, queryClient])
useEffectTemplate(c, s, tc, cc) ==
  LET confirmed == c.scopeData # Null /\ c.scopeData.confirmed
      cachedTopics == tc[<<c.docId, c.selectedTemplate>>]
      s1 == IF c.selectedTemplate # NoTemplate /\ c.analysisStep = 3 /\ confirmed
               /\ cachedTopics.cached
              THEN [s EXCEPT !.generatedTopics = cachedTopics.value,
                             !.analysisStep = 4,
                             !.generatedContent =
                                CachedContentOf(c.docId, c.selectedTemplate,
                                                cachedTopics.value, cc)]
              ELSE s
  IN IF c.selectedTemplate = NoTemplate /\ c.analysisStep >= 3
       THEN [s1 EXCEPT !.generatedTopics = <<>>,
                       !.generatedContent = EmptyContent,
                       !.analysisStep = FallbackStep(c.scopeData)]
       ELSE s1

TemplateDepsChanged(a, b) ==
  \/ a.docId # b.docId
  \/ a.selectedTemplate # b.selectedTemplate
  \/ a.analysisStep # b.analysisStep
  \/ a.scopeData # b.scopeData

\* re-render until no effect dependency changes any more; after the first
\* commit only the template effect has dependencies the effects write
RECURSIVE Settle(_, _, _, _)
Settle(c, s, tc, cc) ==
  IF TemplateDepsChanged(c, s)
    THEN Settle(s, useEffectTemplate(s, s, tc, cc), tc, cc)
    ELSE s

\* the commit after a handler or callback turned the rendered state `pre`
\* into `post`: effects whose dependencies changed run in declaration order
Render(pre, post, statusChanged, status, sc, tc, cc) ==
  LET docChanged == pre.docId # post.docId
      s1 == IF docChanged \/ statusChanged
              THEN useEffectDocumentStatus(post, post, status, sc) ELSE post
      s2 == IF docChanged THEN useEffectDocId(s1) ELSE s1
      s3 == IF TemplateDepsChanged(pre, post)
              THEN useEffectTemplate(post, s2, tc, cc) ELSE s2
  IN Settle(post, s3, tc, cc)

\* a handler that changed only local state: caches and status as they are
RenderLocal(post) ==
  Render(Local, post, FALSE, documentStatus[post.docId],
         scopeCache, topicsCache, contentCache)

(***************************************************************************)
(* Outstanding mutation requests.  cur: the request is the current         *)
(* mutation of its useMutation observer (its callbacks are those of the    *)
(* latest render); otherwise cdoc/ctpl/chist are what the callbacks        *)
(* closed over when the observer left it.                                  *)
(***************************************************************************)
Request(o, k, viaBatch) ==
  [op |-> o, doc |-> docId, tpl |-> selectedTemplate, text |-> k,
   cur |-> TRUE, cdoc |-> "", ctpl |-> "", chist |-> <<>>, batch |-> viaBatch,
   history |-> <<>>, sw |-> switches, id |-> NoId, content |-> "",
   pages |-> <<>>]

Outstanding(o) == {r \in BagToSet(mutations) : r.op = o}

NumOutstanding(o) ==
  LET S == Outstanding(o) IN
  IF S = {} THEN 0
  ELSE BagCardinality([r \in S |-> mutations[r]])

\* useMutation(...).isPending: the observer's current mutation is pending
IsPending(o) == \E r \in Outstanding(o) : r.cur

Freeze(r) ==
  [r EXCEPT !.cur = FALSE, !.cdoc = docId, !.ctpl = selectedTemplate,
            !.chist = chatHistory]

\* observer.mutate: leave the current mutation, start a new one
Mutate(b, r) ==
  LET old == {q \in BagToSet(b) : q.op = r.op /\ q.cur}
      left == IF old = {} THEN b
              ELSE LET q == CHOOSE q \in old : TRUE
                   IN (b (-) SetToBag({q})) (+) SetToBag({Freeze(q)})
  IN left (+) SetToBag({r})

Settled(b, r) == b (-) SetToBag({r})

\* docId / selectedTemplate as the callbacks of request r see them
ClosureDoc(r) == IF r.cur THEN docId ELSE r.cdoc
ClosureTpl(r) == IF r.cur THEN selectedTemplate ELSE r.ctpl
ClosureChat(r) == IF r.cur THEN chatHistory ELSE r.chist

Init ==
  /\ docId = "d1"
  /\ selectedTemplate = NoTemplate
  /\ analysisStep = 0
  /\ scopeData = Null
  /\ generatedTopics = <<>>
  /\ generatedContent = EmptyContent
  /\ contentLoadingState = {}
  /\ chatHistory = <<>>
  /\ isBatchGeneratingRef = FALSE
  /\ isGeneratingAll = FALSE
  /\ isModalOpen = FALSE
  /\ currentTopicForModal = NullTopic
  /\ modalContent = ""
  /\ documentStatus = [d \in Docs |-> NoStatus]
  /\ statusFetch = [d \in Docs |-> IF d = "d1" THEN "inflight" ELSE "idle"]
  /\ scopeCache = [d \in Docs |-> Null]
  /\ topicsCache = [k \in Docs \X TemplateValues |-> NotCached]
  /\ contentCache = [k \in Docs \X TemplateValues \X Keys |-> Undefined]
  /\ chatCache = [k \in Docs \X TemplateValues |-> NotCached]
  /\ mutations = EmptyBag
  /\ batch = NoBatch
  /\ issued = NoCall
  /\ toast = NoToast
  /\ succeeded = {}
  /\ switches = 0
  /\ selects = 0

\* the page body is rendered once a status is known (line 472)
Rendered == documentStatus[docId] # NoStatus

(***************************************************************************)
(* Document selection and the status poller                                *)
(***************************************************************************)
\* the route parameter changes: useParams yields another docId
ChangeDocument(d) ==
  /\ d # docId
  /\ switches < MaxSwitches
  /\ switches' = switches + 1
  /\ succeeded' = {}
  /\ SetLocal(RenderLocal([Local EXCEPT !.docId = d]))
  /\ statusFetch' = [statusFetch EXCEPT ![d] = "inflight"]
  /\ issued' = NoCall
  /\ toast' = NoToast
  /\ UNCHANGED <<contentLoadingState, isBatchGeneratingRef, isGeneratingAll,
                 documentStatus, scopeCache, topicsCache, contentCache,
                 chatCache, mutations, batch, selects>>
  /\ UNCHANGED modalVars

\* a bug: refetchInterval returns 5000 whatever the status
RefetchStatus_Always ==
  /\ statusFetch[docId] = "idle"
  /\ statusFetch' = [statusFetch EXCEPT ![docId] = "inflight"]
  /\ issued' = NoCall
  /\ toast' = NoToast
  /\ UNCHANGED <<docId, selectedTemplate, analysisStep, scopeData,
                 generatedTopics, generatedContent, contentLoadingState,
                 chatHistory, isBatchGeneratingRef, isGeneratingAll,
                 documentStatus, scopeCache, topicsCache, contentCache,
                 chatCache, mutations, batch, switches, selects,
                 succeeded>>
  /\ UNCHANGED modalVars

\* refetchInterval: 5000 ms after a non-terminal status the query refetches
RefetchStatus ==
  /\ statusFetch[docId] = "idle"
  /\ documentStatus[docId] \notin Terminal
  /\ statusFetch' = [statusFetch EXCEPT ![docId] = "inflight"]
  /\ issued' = NoCall
  /\ toast' = NoToast
  /\ UNCHANGED <<docId, selectedTemplate, analysisStep, scopeData,
                 generatedTopics, generatedContent, contentLoadingState,
                 chatHistory, isBatchGeneratingRef, isGeneratingAll,
                 documentStatus, scopeCache, topicsCache, contentCache,
                 chatCache, mutations, batch, switches, selects,
                 succeeded>>
  /\ UNCHANGED modalVars

\* getDocumentStatusAPI(d) answers s; samePayload: the answer equals the
\* cached payload field by field, so `data` keeps its identity
StatusResponse(d, s, samePayload) ==
  /\ statusFetch[d] = "inflight"
  /\ StatusRank(s) >= StatusRank(documentStatus[d])
  /\ documentStatus[d] \in Terminal => s = documentStatus[d]
  /\ samePayload => s = documentStatus[d]
  /\ documentStatus' = [documentStatus EXCEPT ![d] = s]
  /\ statusFetch' = [statusFetch EXCEPT ![d] = "idle"]
  /\ SetLocal(Render(Local, Local, d = docId /\ ~samePayload, s,
                     scopeCache, topicsCache, contentCache))
  /\ issued' = NoCall
  /\ toast' = NoToast
  /\ UNCHANGED <<contentLoadingState, isBatchGeneratingRef, isGeneratingAll,
                 scopeCache, topicsCache, contentCache, chatCache, mutations,
                 batch, switches, selects,
                 succeeded>>
  /\ UNCHANGED modalVars

\* the template <select>: onChange={(e) => setSelectedTemplate(e.target.value)}
SelectTemplate(t) ==
  /\ t # selectedTemplate
  /\ selects < MaxSelects
  /\ selects' = selects + 1
  /\ succeeded' = {}
  /\ SetLocal(RenderLocal([Local EXCEPT !.selectedTemplate = t]))
  /\ issued' = NoCall
  /\ toast' = NoToast
  /\ UNCHANGED <<contentLoadingState, isBatchGeneratingRef, isGeneratingAll,
                 documentStatus, statusFetch, scopeCache, topicsCache,
                 contentCache, chatCache, mutations, batch, switches>>
  /\ UNCHANGED modalVars

\* disabled={... || analysisStep > 3} on the template <select>
SelectEnabled == Rendered /\ analysisStep <= 3

\* callbacks and handlers that changed local state and caches
Commit(post, sc, tc, cc) ==
  SetLocal(Render(Local, post, FALSE, documentStatus[docId], sc, tc, cc))

IsConfirmed(scope) == scope # Null /\ scope.confirmed

(***************************************************************************)
(* Scope extraction and confirmation                                       *)
(***************************************************************************)
\* a bug: the handler forgets that a scope was already extracted
ScopeAwaitingConfirmation_Forgotten == FALSE

\* if (scopeData && !scopeData.is_confirmed)
ScopeAwaitingConfirmation == scopeData # Null /\ ~scopeData.confirmed

\* if (scopeData && scopeData.is_confirmed)
ScopeAlreadyConfirmed == scopeData # Null /\ scopeData.confirmed

handleStartAnalysis ==
  /\ IF selectedTemplate = NoTemplate THEN
       /\ toast' = "Document ID is missing or no template selected."
       /\ issued' = NoCall
       /\ UNCHANGED <<docId, selectedTemplate, analysisStep, scopeData,
                      generatedTopics, generatedContent, chatHistory,
                      mutations>>
     ELSE IF documentStatus[docId] # "processed" THEN
       /\ toast' = "Document is not yet processed. Please wait."
       /\ issued' = NoCall
       /\ UNCHANGED <<docId, selectedTemplate, analysisStep, scopeData,
                      generatedTopics, generatedContent, chatHistory,
                      mutations>>
     ELSE IF ScopeAwaitingConfirmation THEN
       /\ toast' = "Scope already extracted. Please confirm it."
       /\ issued' = NoCall
       /\ SetLocal(RenderLocal([Local EXCEPT !.analysisStep = 2]))
       /\ UNCHANGED mutations
     ELSE IF ScopeAlreadyConfirmed THEN
       /\ toast' = "Scope already confirmed. Proceed to topic generation."
       /\ issued' = NoCall
       /\ SetLocal(RenderLocal([Local EXCEPT !.analysisStep = 3]))
       /\ UNCHANGED mutations
     ELSE
       /\ NumOutstanding("extractScope") < MaxOutstanding
       /\ mutations' = Mutate(mutations, Request("extractScope", "", FALSE))
       /\ issued' = Call("extractScope", docId, "", "")
       /\ toast' = NoToast
       /\ UNCHANGED <<docId, selectedTemplate, analysisStep, scopeData,
                      generatedTopics, generatedContent, chatHistory>>
  /\ UNCHANGED <<contentLoadingState, isBatchGeneratingRef, isGeneratingAll,
                 documentStatus, statusFetch, scopeCache, topicsCache,
                 contentCache, chatCache, batch, switches, selects,
                 succeeded>>
  /\ UNCHANGED modalVars

\* the disabled expression of the "Start Scope Extraction" button
StartAnalysisEnabled ==
  /\ Rendered
  /\ selectedTemplate # NoTemplate
  /\ documentStatus[docId] = "processed"
  /\ ~IsPending("extractScope")
  /\ ~(scopeData # Null /\ scopeData.confirmed)

\* extractDocumentScopeAPI(r.doc, true) answers
extractScopeSettled(r, ok) ==
  /\ r \in Outstanding("extractScope")
  /\ mutations' = Settled(mutations, r)
  /\ issued' = NoCall
  /\ IF ok THEN
       LET data == [doc |-> r.doc, confirmed |-> FALSE]
           sc == [scopeCache EXCEPT ![ClosureDoc(r)] = data]
       IN /\ toast' = "Scope extracted successfully!"
          /\ scopeCache' = sc
          /\ Commit([Local EXCEPT !.scopeData = data], sc, topicsCache,
                    contentCache)
     ELSE
       /\ toast' = "Failed to extract scope"
       /\ UNCHANGED <<docId, selectedTemplate, analysisStep, scopeData,
                      generatedTopics, generatedContent, chatHistory,
                      scopeCache>>
  /\ UNCHANGED <<contentLoadingState, isBatchGeneratingRef, isGeneratingAll,
                 documentStatus, statusFetch, topicsCache, contentCache,
                 chatCache, batch, switches, selects,
                 succeeded>>
  /\ UNCHANGED modalVars

\* a bug: the handler confirms without looking at the scope
NoScopeToConfirm_Unchecked == FALSE

\* if (!scopeData)
NoScopeToConfirm == scopeData = Null

\* source_pages of a scope: the pages the service found the scope of the
\* document on (none for d2)
SourcePages(scope) == IF scope.doc = "d1" THEN <<3, 4>> ELSE <<>>

\* the variables of confirmScopeMutation.mutate({}): no pages property
NoPages == [given |-> FALSE, pages |-> <<>>]

\* params.pages || []
PagesSent(params) == IF params.given THEN params.pages ELSE <<>>

handleConfirmScope ==
  /\ IF NoScopeToConfirm THEN
       /\ toast' = "No scope data to confirm."
       /\ issued' = NoCall
       /\ UNCHANGED mutations
     ELSE
       /\ NumOutstanding("confirmScope") < MaxOutstanding
       /\ mutations' =
            Mutate(mutations,
                   [Request("confirmScope", "", FALSE) EXCEPT
                      !.pages = PagesSent(NoPages)])
       /\ issued' = Call("confirmScope", docId, "", "")
       /\ toast' = NoToast
  /\ UNCHANGED <<docId, selectedTemplate, analysisStep, scopeData,
                 generatedTopics, generatedContent, chatHistory,
                 contentLoadingState, isBatchGeneratingRef, isGeneratingAll,
                 documentStatus, statusFetch, scopeCache, topicsCache,
                 contentCache, chatCache, batch, switches, selects,
                 succeeded>>
  /\ UNCHANGED modalVars

\* the "Confirm Scope" button is rendered inside the Scope Details card
ConfirmScopeEnabled ==
  /\ Rendered
  /\ documentStatus[docId] = "processed" \/ scopeData # Null
  /\ analysisStep = 2
  /\ scopeData # Null /\ ~scopeData.confirmed
  /\ ~IsPending("confirmScope")

\* a bug: onSuccess stores the scope but does not advance the stage
StepAfterConfirm_Stays(step) == step

\* confirmScopeMutation.onSuccess: setAnalysisStep(3)
StepAfterConfirm(step) == 3

\* confirmDocumentScopeAPI(r.doc, []) answers with the confirmed scope
confirmScopeSettled(r, ok) ==
  /\ r \in Outstanding("confirmScope")
  /\ mutations' = Settled(mutations, r)
  /\ issued' = NoCall
  /\ IF ok THEN
       LET data == [doc |-> r.doc, confirmed |-> TRUE]
           sc == [scopeCache EXCEPT ![ClosureDoc(r)] = data]
       IN /\ toast' = "Scope confirmed successfully!"
          /\ scopeCache' = sc
          /\ Commit([Local EXCEPT !.scopeData = data,
                                  !.analysisStep = StepAfterConfirm(@)],
                    sc, topicsCache, contentCache)
     ELSE
       /\ toast' = "Failed to confirm scope"
       /\ UNCHANGED <<docId, selectedTemplate, analysisStep, scopeData,
                      generatedTopics, generatedContent, chatHistory,
                      scopeCache>>
  /\ UNCHANGED <<contentLoadingState, isBatchGeneratingRef, isGeneratingAll,
                 documentStatus, statusFetch, topicsCache, contentCache,
                 chatCache, batch, switches, selects,
                 succeeded>>
  /\ UNCHANGED modalVars

(***************************************************************************)
(* Topic generation                                                        *)
(***************************************************************************)
\* a bug: the handler only checks that a scope exists
ScopeNotConfirmed_ExistenceOnly == scopeData = Null

\* if (!scopeData || !scopeData.is_confirmed)
ScopeNotConfirmed == scopeData = Null \/ ~scopeData.confirmed

handleGenerateTopics ==
  /\ IF selectedTemplate = NoTemplate THEN
       /\ toast' = "Cannot generate topics without a document and selected template."
       /\ issued' = NoCall
       /\ UNCHANGED mutations
     ELSE IF ScopeNotConfirmed THEN
       /\ toast' = "Scope must be confirmed before generating topics."
       /\ issued' = NoCall
       /\ UNCHANGED mutations
     ELSE
       /\ NumOutstanding("generateTopics") < MaxOutstanding
       /\ mutations' = Mutate(mutations, Request("generateTopics", "", FALSE))
       /\ issued' = Call("generateTopics", docId, selectedTemplate, "")
       /\ toast' = NoToast
  /\ UNCHANGED <<docId, selectedTemplate, analysisStep, scopeData,
                 generatedTopics, generatedContent, chatHistory,
                 contentLoadingState, isBatchGeneratingRef, isGeneratingAll,
                 documentStatus, statusFetch, scopeCache, topicsCache,
                 contentCache, chatCache, batch, switches, selects,
                 succeeded>>
  /\ UNCHANGED modalVars

\* the Topic Generation card and the disabled expression of its button
GenerateTopicsEnabled ==
  /\ Rendered
  /\ analysisStep = 3
  /\ IsConfirmed(scopeData)
  /\ ~IsPending("generateTopics")
  /\ Len(generatedTopics) = 0
  /\ selectedTemplate # NoTemplate

\* the newTopics of generateTopicsMutation.onSuccess
NewTopics(raw) ==
  [i \in 1..Len(raw) |-> [id |-> raw[i].id, text |-> TopicText(raw[i].text)]]

\* generateTopicsAPI(r.doc, r.tpl) answers with the topic texts raw
generateTopicsSettled(r, ok, raw) ==
  /\ r \in Outstanding("generateTopics")
  /\ mutations' = Settled(mutations, r)
  /\ issued' = NoCall
  /\ IF ok THEN
       LET newTopics == NewTopics(raw)
           tc == [topicsCache EXCEPT ![<<ClosureDoc(r), ClosureTpl(r)>>] =
                                        Cached(newTopics)]
       IN /\ toast' = "Topics generated successfully!"
          /\ topicsCache' = tc
          /\ Commit([Local EXCEPT !.generatedTopics = newTopics,
                                  !.analysisStep = 4],
                    scopeCache, tc, contentCache)
     ELSE
       /\ raw = <<>>
       /\ toast' = "Failed to generate topics"
       /\ UNCHANGED <<docId, selectedTemplate, analysisStep, scopeData,
                      generatedTopics, generatedContent, chatHistory,
                      topicsCache>>
  /\ UNCHANGED <<contentLoadingState, isBatchGeneratingRef, isGeneratingAll,
                 documentStatus, statusFetch, scopeCache, contentCache,
                 chatCache, batch, switches, selects,
                 succeeded>>
  /\ UNCHANGED modalVars

(***************************************************************************)
(* Content generation: single topic and batch                              *)
(***************************************************************************)
\* the keys k for which generatedContent[k] is truthy
WithContent(gc) == {k \in Keys : Truthy(gc[k])}

\* a bug: the loop only skips the topics that have content
NextBatchIndex_IgnoresInFlight(b, from) ==
  LET cand == {j \in from..Len(b.topics) : b.topics[j].text \notin b.content}
  IN IF cand = {} THEN 0 ELSE CHOOSE j \in cand : \A i \in cand : j <= i

\* next topic of the batch loop, from position `from` on, that passes
\* !generatedContent[topic.text] && !contentLoadingState[topic.text] as the
\* handler's closure sees them; 0 when the loop runs off the list
NextBatchIndex(b, from) ==
  LET cand == {j \in from..Len(b.topics) :
                 /\ b.topics[j].text \notin b.content
                 /\ b.topics[j].text \notin b.loading}
  IN IF cand = {} THEN 0 ELSE CHOOSE j \in cand : \A i \in cand : j <= i

\* the topic of the displayed list with text k (the row that was clicked)
TopicOf(topics, k) ==
  topics[CHOOSE i \in 1..Len(topics) :
           /\ topics[i].text = k
           /\ \A j \in 1..(i - 1) : topics[j].text # k]

\* a generateContent request for a topic
ContentRequest(topic, viaBatch) ==
  [Request("generateContent", topic.text, viaBatch) EXCEPT !.id = topic.id]

\* setCurrentTopicForModal(topic); setModalContent(content);
\* setIsModalOpen(true)
OpenModal(topic, content) ==
  /\ currentTopicForModal' = topic
  /\ modalContent' = content
  /\ isModalOpen' = TRUE

handleGenerateOrViewContent(k) ==
  /\ \E i \in 1..Len(generatedTopics) : generatedTopics[i].text = k
  /\ IF Truthy(generatedContent[k]) THEN
       /\ OpenModal(TopicOf(generatedTopics, k), generatedContent[k])
       /\ toast' = NoToast
       /\ issued' = NoCall
       /\ UNCHANGED <<mutations, contentLoadingState>>
     ELSE IF IsPending("generateContent") /\ k \in contentLoadingState THEN
       /\ toast' = "Still generating content"
       /\ issued' = NoCall
       /\ UNCHANGED <<mutations, contentLoadingState, modalVars>>
     ELSE IF IsPending("generateContent") /\ k \notin contentLoadingState THEN
       /\ toast' = "Please wait for the current content generation to complete."
       /\ issued' = NoCall
       /\ UNCHANGED <<mutations, contentLoadingState, modalVars>>
     ELSE
       /\ NumOutstanding("generateContent") < MaxOutstanding
       /\ mutations' =
            Mutate(mutations,
                   ContentRequest(TopicOf(generatedTopics, k), FALSE))
       /\ contentLoadingState' = contentLoadingState \cup {k}
       /\ issued' = Call("generateContent", docId, selectedTemplate, k)
       /\ toast' = NoToast
       /\ UNCHANGED modalVars
  /\ UNCHANGED <<docId, selectedTemplate, analysisStep, scopeData,
                 generatedTopics, generatedContent, chatHistory,
                 isBatchGeneratingRef, isGeneratingAll, documentStatus,
                 statusFetch, scopeCache, topicsCache, contentCache,
                 chatCache, batch, switches, selects,
                 succeeded>>

\* the Generated Topics card is rendered
TopicsShown == Rendered /\ analysisStep >= 4 /\ Len(generatedTopics) > 0

\* a topic row's button: rendered for the topics of the list, with its
\* disabled expression
GenerateOrViewEnabled(k) ==
  /\ TopicsShown
  /\ \E i \in 1..Len(generatedTopics) : generatedTopics[i].text = k
  /\ ~(isGeneratingAll /\ ~Truthy(generatedContent[k]))
  /\ k \notin contentLoadingState
  /\ ~(IsPending("generateContent") /\ k \notin contentLoadingState
       /\ ~isGeneratingAll)

handleGenerateAllContent ==
  /\ ~batch.active
  /\ IF Len(generatedTopics) = 0 THEN
       /\ toast' = "No topics available to generate content for."
       /\ issued' = NoCall
       /\ UNCHANGED <<mutations, contentLoadingState, isBatchGeneratingRef,
                      isGeneratingAll, batch>>
     ELSE
       LET b == [active |-> TRUE, idx |-> 0, topics |-> generatedTopics,
                 content |-> WithContent(generatedContent),
                 loading |-> contentLoadingState, count |-> 0, calls |-> 0,
                 n |-> Len(generatedTopics),
                 k |-> Cardinality({i \in 1..Len(generatedTopics) :
                         Truthy(generatedContent[generatedTopics[i].text])}),
                 clean |-> contentLoadingState = {}
                           /\ Outstanding("generateContent") = {},
                 sw |-> switches, done |-> FALSE]
           j == NextBatchIndex(b, 1)
       IN IF j = 0 THEN
            /\ toast' = "No new content was generated in batch"
            /\ issued' = NoCall
            /\ isBatchGeneratingRef' = FALSE
            /\ isGeneratingAll' = FALSE
            /\ batch' = Finished(b, 0)
            /\ UNCHANGED <<mutations, contentLoadingState>>
          ELSE
            /\ NumOutstanding("generateContent") < MaxOutstanding
            /\ isBatchGeneratingRef' = TRUE
            /\ isGeneratingAll' = TRUE
            /\ batch' = [b EXCEPT !.idx = j, !.calls = 1]
            /\ mutations' =
                 Mutate(mutations, ContentRequest(b.topics[j], TRUE))
            /\ contentLoadingState' =
                 contentLoadingState \cup {b.topics[j].text}
            /\ issued' = Call("generateContent", docId, selectedTemplate,
                              b.topics[j].text)
            /\ toast' = "Starting batch content generation..."
  /\ UNCHANGED <<docId, selectedTemplate, analysisStep, scopeData,
                 generatedTopics, generatedContent, chatHistory,
                 documentStatus, statusFetch, scopeCache, topicsCache,
                 contentCache, chatCache, switches, selects,
                 succeeded>>
  /\ UNCHANGED modalVars

\* the disabled expression of the "Generate All Content" button
GenerateAllEnabled ==
  /\ TopicsShown
  /\ ~isGeneratingAll
  /\ ~(\A i \in 1..Len(generatedTopics) :
         \/ Truthy(generatedContent[generatedTopics[i].text])
         \/ generatedTopics[i].text \in contentLoadingState)

\* topic names the service may put in the `topic` field of its answer;
\* "" is an answer without one
ResponseTopics == Keys \cup {""}

\* a bug: the in-flight mark is cleared in onSuccess instead of onSettled
LoadingAfterSettled_SuccessOnly(ls, r, ok) ==
  IF ok THEN ls \ {r.text} ELSE ls

\* generateContentMutation.onSettled:
\* setContentLoadingState(prev => ({...prev, [topicGenerated.text]: false}))
LoadingAfterSettled(ls, r, ok) == ls \ {r.text}

\* the loop of handleGenerateAllContent after the awaited request r has
\* settled: count++ on success, the toast of the catch block on failure,
\* then the next topic that passes the loop's test, or the end of the run
LoopStep(r, ok) ==
  LET left == Settled(mutations, r)
      loading == LoadingAfterSettled(contentLoadingState, r, ok)
      j == NextBatchIndex(batch, batch.idx + 1)
  IN IF j = 0 THEN
       /\ mutations' = left
       /\ contentLoadingState' = loading
       /\ issued' = NoCall
       /\ toast' = IF batch.count + (IF ok THEN 1 ELSE 0) > 0
                   THEN "Batch content generation completed"
                   ELSE "No new content was generated in batch"
       /\ batch' = Finished(batch, batch.count + (IF ok THEN 1 ELSE 0))
       /\ isBatchGeneratingRef' = FALSE
       /\ isGeneratingAll' = FALSE
     ELSE
       /\ mutations' =
            Mutate(left, ContentRequest(batch.topics[j], TRUE))
       /\ contentLoadingState' = loading \cup {batch.topics[j].text}
       /\ issued' = Call("generateContent", docId, selectedTemplate,
                         batch.topics[j].text)
       /\ toast' = IF ok THEN "Content generated"
                   ELSE "Failed to generate content during batch operation"
       /\ batch' = [batch EXCEPT !.idx = j, !.calls = @ + 1,
                                 !.count = @ + (IF ok THEN 1 ELSE 0)]
       /\ UNCHANGED <<isBatchGeneratingRef, isGeneratingAll>>

\* a bug: the await is not wrapped in try/catch, so a rejected call ends
\* the handler before the lines that reset the flags
AwaitInLoop_NoCatch(r, ok) ==
  IF ok THEN LoopStep(r, ok)
  ELSE /\ mutations' = Settled(mutations, r)
       /\ contentLoadingState' =
            LoadingAfterSettled(contentLoadingState, r, ok)
       /\ issued' = NoCall
       /\ toast' = "Failed to generate content"
       /\ batch' = Finished(batch, batch.count)
       /\ UNCHANGED <<isBatchGeneratingRef, isGeneratingAll>>

\* try { await generateContentMutation.mutateAsync(topic); count++; }
\* catch (error) { toast.error(...) }: the loop goes on either way
AwaitInLoop(r, ok) == LoopStep(r, ok)

\* a bug: the content map is written in onSettled, whatever the outcome
ContentAfterAnswer_WrittenOnSettled(gc, ok, topicKey, content) ==
  [gc EXCEPT ![topicKey] = content]

\* setGeneratedContent(prev => ({...prev, [topicKey]: data.content})) is
\* called in onSuccess only
ContentAfterAnswer(gc, ok, topicKey, content) ==
  IF ok THEN [gc EXCEPT ![topicKey] = content] ELSE gc

\* generateContentAPI(r.doc, r.tpl, r.text) answers {topic, content};
\* a request of the batch loop resumes the loop
generateContentSettled(r, ok, rtopic, content) ==
  /\ r \in Outstanding("generateContent")
  /\ ~ok => rtopic = "" /\ content = ""
  /\ LET topicKey == IF rtopic # "" THEN rtopic ELSE r.text
     IN /\ generatedContent' =
             ContentAfterAnswer(generatedContent, ok, topicKey, content)
        /\ succeeded' =
             IF ok /\ r.doc = docId /\ r.tpl = selectedTemplate
               THEN succeeded \cup {r.text} ELSE succeeded
        /\ contentCache' =
             IF ok THEN [contentCache EXCEPT
                           ![<<ClosureDoc(r), ClosureTpl(r), topicKey>>] = content]
             ELSE contentCache
        /\ IF ok /\ ~isBatchGeneratingRef
             THEN OpenModal([id |-> r.id, text |-> r.text], content)
             ELSE UNCHANGED modalVars
        /\ IF ~r.batch THEN
             /\ mutations' = Settled(mutations, r)
             /\ contentLoadingState' =
                  LoadingAfterSettled(contentLoadingState, r, ok)
             /\ issued' = NoCall
             /\ toast' = IF ok THEN "Content generated"
                         ELSE "Failed to generate content"
             /\ UNCHANGED <<batch, isBatchGeneratingRef, isGeneratingAll>>
           ELSE AwaitInLoop(r, ok)
  /\ UNCHANGED <<docId, selectedTemplate, analysisStep, scopeData,
                 generatedTopics, chatHistory, documentStatus, statusFetch,
                 scopeCache, topicsCache, chatCache, switches, selects>>

(***************************************************************************)
(* The topic editor: viewing, editing and saving a topic's content         *)
(***************************************************************************)
\* the state no editor step touches
pageVars == <<docId, selectedTemplate, analysisStep, scopeData,
              generatedTopics, chatHistory, contentLoadingState,
              isBatchGeneratingRef, isGeneratingAll, documentStatus,
              statusFetch, scopeCache, topicsCache, chatCache, batch,
              switches, selects, succeeded>>

\* what the user may type into the editor
DraftInputs == {"", "e"}

\* <Textarea value={modalContent}
\*           onChange={(e) => setModalContent(e.target.value)} />
EditModalContent(c) ==
  /\ c # modalContent
  /\ modalContent' = c
  /\ issued' = NoCall
  /\ toast' = NoToast
  /\ UNCHANGED <<isModalOpen, currentTopicForModal, generatedContent,
                 contentCache, mutations, pageVars>>

\* <Dialog open={isModalOpen} onOpenChange={setIsModalOpen}>: the Close
\* button, Escape or a click outside
CloseModal ==
  /\ isModalOpen' = FALSE
  /\ issued' = NoCall
  /\ toast' = NoToast
  /\ UNCHANGED <<currentTopicForModal, modalContent, generatedContent,
                 contentCache, mutations, pageVars>>

\* a bug: every topic is taken to have a server id
HasServerId_Always(topic) == TRUE

\* if (currentTopicForModal.id)
HasServerId(topic) == topic.id # NoId

\* a bug: the draft is not written to the query client
CacheAfterSave_NotWritten(cc, d, t, k, c) == cc

\* queryClient.setQueryData(["generatedContent", docId, selectedTemplate,
\*                           currentTopicForModal.text], modalContent)
CacheAfterSave(cc, d, t, k, c) == [cc EXCEPT ![<<d, t, k>>] = c]

\* saveContentMutation.mutate({ topic, content })
SaveRequest(topic, content) ==
  [Request("saveContent", topic.text, FALSE) EXCEPT
     !.id = topic.id, !.content = content]

\* mutationFn throws before any remote call when the topic has no id;
\* the rejection is reported by onError when the request settles
handleSaveModalContent ==
  /\ IF currentTopicForModal # NullTopic THEN
       /\ generatedContent' =
            [generatedContent EXCEPT
               ![currentTopicForModal.text] = modalContent]
       /\ contentCache' =
            CacheAfterSave(contentCache, docId, selectedTemplate,
                           currentTopicForModal.text, modalContent)
       /\ IF HasServerId(currentTopicForModal) THEN
            /\ NumOutstanding("saveContent") < MaxOutstanding
            /\ mutations' =
                 Mutate(mutations,
                        SaveRequest(currentTopicForModal, modalContent))
            /\ issued' =
                 IF currentTopicForModal.id # NoId
                   THEN Call("saveContent", docId, "",
                             currentTopicForModal.text)
                   ELSE NoCall
            /\ toast' =
                 IF currentTopicForModal.id # NoId THEN NoToast
                 ELSE "Cannot save content: Topic ID is missing."
          ELSE
            /\ toast' =
                 "Content saved locally. Topic ID missing for backend save."
            /\ issued' = NoCall
            /\ UNCHANGED mutations
       /\ isModalOpen' = FALSE
       /\ UNCHANGED <<currentTopicForModal, modalContent>>
     ELSE
       /\ toast' =
            "Error saving content: No topic selected or document ID missing."
       /\ issued' = NoCall
       /\ UNCHANGED <<generatedContent, contentCache, mutations, modalVars>>
  /\ UNCHANGED pageVars

\* the editor is shown
ModalShown == Rendered /\ isModalOpen

\* the disabled expression of the "Save Content" button
SaveEnabled ==
  /\ ModalShown
  /\ ~IsPending("saveContent")
  /\ currentTopicForModal # NullTopic

\* saveDocumentContentAPI(r.doc, r.id, r.content) answers, or the
\* rejection of mutationFn for a topic without id is delivered
saveContentSettled(r, ok) ==
  /\ r \in Outstanding("saveContent")
  /\ r.id = NoId => ~ok
  /\ mutations' = Settled(mutations, r)
  /\ issued' = NoCall
  /\ IF ok THEN
       /\ toast' = "Content saved successfully!"
       /\ generatedContent' = [generatedContent EXCEPT ![r.text] = r.content]
     ELSE
       /\ toast' = "Failed to save content"
       /\ UNCHANGED generatedContent
  /\ UNCHANGED <<contentCache, modalVars, pageVars>>

(***************************************************************************)
(* Chat                                                                    *)
(***************************************************************************)
\* what the user may have typed into the chat input
ChatInputs == {"", " ", "q"}

\* String.prototype.trim on the inputs above
Trim(m) == IF m = " " THEN "" ELSE m

UserTurn(m) == [role |-> "user", content |-> m]
AssistantTurn == [role |-> "assistant", content |-> "r"]

\* a bug: the call is made without the conversation so far
HistoryForAPI_Empty(h) == <<>>

\* const historyForAPI =
\*   chatHistory.map(msg => ({ role: msg.role, content: msg.content }))
HistoryForAPI(h) ==
  [i \in 1..Len(h) |-> [role |-> h[i].role, content |-> h[i].content]]

handleSendChatMessage(m) ==
  /\ IF Trim(m) = "" THEN
       /\ toast' = NoToast
       /\ issued' = NoCall
       /\ UNCHANGED <<mutations, chatHistory>>
     ELSE IF selectedTemplate = NoTemplate THEN
       /\ toast' = "Document and template must be selected for chat."
       /\ issued' = NoCall
       /\ UNCHANGED <<mutations, chatHistory>>
     ELSE
       /\ Len(chatHistory) < MaxChat
       /\ NumOutstanding("chat") < MaxOutstanding
       /\ mutations' =
            Mutate(mutations,
                   [Request("chat", m, FALSE) EXCEPT
                      !.history = HistoryForAPI(chatHistory)])
       /\ chatHistory' = Append(chatHistory, UserTurn(m))
       /\ issued' = Call("chat", docId, selectedTemplate, m)
       /\ toast' = NoToast
  /\ UNCHANGED <<docId, selectedTemplate, analysisStep, scopeData,
                 generatedTopics, generatedContent, contentLoadingState,
                 isBatchGeneratingRef, isGeneratingAll, documentStatus,
                 statusFetch, scopeCache, topicsCache, contentCache,
                 chatCache, batch, switches, selects,
                 succeeded>>
  /\ UNCHANGED modalVars

\* the chat card is rendered and its input accepts Enter
ChatEnabled ==
  /\ TopicsShown
  /\ selectedTemplate # NoTemplate
  /\ ~IsPending("chat")

\* a bug: the failed send leaves its user turn in the transcript
RollBack_Kept(h) == h

\* chatMutation.onError: prev.slice(0, -1)
RollBack(h) == SubSeq(h, 1, Len(h) - 1)

\* chatWithDocumentAPI(r.doc, r.tpl, r.text, r.history) answers
chatSettled(r, ok) ==
  /\ r \in Outstanding("chat")
  /\ mutations' = Settled(mutations, r)
  /\ issued' = NoCall
  /\ IF ok THEN
       /\ chatHistory' = Append(chatHistory, AssistantTurn)
       /\ chatCache' = [chatCache EXCEPT
                          ![<<ClosureDoc(r), ClosureTpl(r)>>] =
                             Cached(ClosureChat(r))]
       /\ toast' = NoToast
     ELSE
       /\ chatHistory' = RollBack(chatHistory)
       /\ toast' = "Chat error"
       /\ UNCHANGED chatCache
  /\ UNCHANGED <<docId, selectedTemplate, analysisStep, scopeData,
                 generatedTopics, generatedContent, contentLoadingState,
                 isBatchGeneratingRef, isGeneratingAll, documentStatus,
                 statusFetch, scopeCache, topicsCache, contentCache, batch,
                 switches, selects,
                 succeeded>>
  /\ UNCHANGED modalVars

(***************************************************************************)
(* The progress indicator                                                  *)
(***************************************************************************)
PipelineSteps == 1..4

\* getStepStatusDisplay(step): "error", "pending", "current" or "complete"
getStepStatusDisplay(step) ==
  LET status == documentStatus[docId]
      confirmed == scopeData # Null /\ scopeData.confirmed
  IN
  IF status = "error" THEN "error"
  ELSE IF step = 1 THEN
    IF IsPending("extractScope") \/ IsPending("generateTopics") THEN "pending"
    ELSE IF status = "processing" THEN "current"
    ELSE IF status = "processed" \/ analysisStep >= 2 THEN "complete"
    ELSE "pending"
  ELSE IF step = 2 THEN
    IF status # "processed" THEN "pending"
    ELSE IF IsPending("generateTopics") THEN "pending"
    ELSE IF IsPending("extractScope") THEN "current"
    ELSE IF scopeData # Null /\ ~scopeData.confirmed
            /\ ~IsPending("confirmScope") THEN "current"
    ELSE IF IsPending("confirmScope") THEN "current"
    ELSE IF confirmed \/ analysisStep >= 3 THEN "complete"
    ELSE "pending"
  ELSE IF step = 3 THEN
    IF ~confirmed THEN "pending"
    ELSE IF IsPending("generateTopics") THEN "current"
    ELSE IF analysisStep = 3 /\ Len(generatedTopics) = 0
            /\ ~IsPending("generateTopics") THEN "current"
    ELSE IF analysisStep >= 4
            \/ (analysisStep = 3 /\ Len(generatedTopics) > 0) THEN "complete"
    ELSE "pending"
  ELSE IF step = 4 THEN
    IF analysisStep = 4 /\ Len(generatedTopics) > 0 THEN "complete"
    ELSE "pending"
  ELSE "pending"

(***************************************************************************)
(* Answers of the remote service                                           *)
(***************************************************************************)
\* a topic as the service sends it
RawTopic(text, id) == [text |-> text, id |-> id]

\* a topic with text and id followed by one with neither
NamedAndUnnamed == <<RawTopic("A", 1), RawTopic("", NoId)>>

\* two topics without text or id
TwoUnnamed == <<RawTopic("", NoId), RawTopic("", NoId)>>

\* topic lists the service may answer generateTopics with
RawTopicLists == {<<>>, NamedAndUnnamed, TwoUnnamed}

StatusAnswers ==
  \E d \in Docs, s \in Statuses, same \in BOOLEAN : StatusResponse(d, s, same)

ExtractAnswers ==
  \E r \in Outstanding("extractScope"), ok \in BOOLEAN :
     extractScopeSettled(r, ok)

ConfirmAnswers ==
  \E r \in Outstanding("confirmScope"), ok \in BOOLEAN :
     confirmScopeSettled(r, ok)

TopicsAnswers ==
  \E r \in Outstanding("generateTopics"), ok \in BOOLEAN,
     raw \in RawTopicLists : generateTopicsSettled(r, ok, raw)

ContentAnswers ==
  \E r \in Outstanding("generateContent"), ok \in BOOLEAN,
     rtopic \in ResponseTopics, content \in Contents :
     generateContentSettled(r, ok, rtopic, content)

ChatAnswers ==
  \E r \in Outstanding("chat"), ok \in BOOLEAN : chatSettled(r, ok)

SaveAnswers ==
  \E r \in Outstanding("saveContent"), ok \in BOOLEAN :
     saveContentSettled(r, ok)

Navigate == \E d \in Docs : ChangeDocument(d)

(***************************************************************************)
(* The page as rendered: a handler runs when its control is enabled        *)
(***************************************************************************)
ChooseTemplate ==
  \E t \in TemplateValues : SelectEnabled /\ SelectTemplate(t)

ClickStartAnalysis == StartAnalysisEnabled /\ handleStartAnalysis

ClickConfirmScope == ConfirmScopeEnabled /\ handleConfirmScope

ClickGenerateTopics == GenerateTopicsEnabled /\ handleGenerateTopics

ClickTopic ==
  \E k \in Keys : GenerateOrViewEnabled(k) /\ handleGenerateOrViewContent(k)

ClickGenerateAll == GenerateAllEnabled /\ handleGenerateAllContent

SendChat == \E m \in ChatInputs : ChatEnabled /\ handleSendChatMessage(m)

TypeInEditor == \E c \in DraftInputs : ModalShown /\ EditModalContent(c)

ClickClose == ModalShown /\ CloseModal

ClickSave == SaveEnabled /\ handleSaveModalContent

\* Stage machine: from a fresh page to TopicsReady, across documents
Next ==
  \/ Navigate
  \/ RefetchStatus
  \/ StatusAnswers
  \/ ChooseTemplate
  \/ ClickStartAnalysis
  \/ ExtractAnswers
  \/ ClickConfirmScope
  \/ ConfirmAnswers
  \/ ClickGenerateTopics
  \/ TopicsAnswers

Spec == Init /\ [][Next]_vars

(***************************************************************************)
(* The handlers as the engine's operations: callable in any state,         *)
(* whether or not the page enables their control                           *)
(***************************************************************************)
CallSelectTemplate == \E t \in TemplateValues : SelectTemplate(t)

NextEngine ==
  \/ RefetchStatus
  \/ StatusAnswers
  \/ CallSelectTemplate
  \/ handleStartAnalysis
  \/ ExtractAnswers
  \/ handleConfirmScope
  \/ ConfirmAnswers
  \/ handleGenerateTopics
  \/ TopicsAnswers

SpecEngine == Init /\ [][NextEngine]_vars

(***************************************************************************)
(* Content generation, from TopicsReady.  The initial states are states    *)
(* of Spec: both documents have been taken to TopicsReady with template    *)
(* tA (d2 first, then d1), so their status, confirmed scope and topics     *)
(* are in the query client, and d1 is the active document.  The route      *)
(* changes at most MaxContentSwitches times in this slice.                 *)
(***************************************************************************)
InitContent ==
  /\ docId = "d1"
  /\ selectedTemplate = "tA"
  /\ analysisStep = 4
  /\ scopeData = [doc |-> "d1", confirmed |-> TRUE]
  /\ generatedTopics \in {NewTopics(raw) : raw \in RawTopicLists \ {<<>>}}
  /\ generatedContent = EmptyContent
  /\ contentLoadingState = {}
  /\ chatHistory = <<>>
  /\ isBatchGeneratingRef = FALSE
  /\ isGeneratingAll = FALSE
  /\ isModalOpen = FALSE
  /\ currentTopicForModal = NullTopic
  /\ modalContent = ""
  /\ documentStatus = [d \in Docs |-> "processed"]
  /\ statusFetch = [d \in Docs |-> "idle"]
  /\ scopeCache = [d \in Docs |-> [doc |-> d, confirmed |-> TRUE]]
  /\ topicsCache = [k \in Docs \X TemplateValues |->
                      IF k[2] = "tA" THEN Cached(generatedTopics)
                      ELSE NotCached]
  /\ contentCache = [k \in Docs \X TemplateValues \X Keys |-> Undefined]
  /\ chatCache = [k \in Docs \X TemplateValues |-> NotCached]
  /\ mutations = EmptyBag
  /\ batch = NoBatch
  /\ issued = NoCall
  /\ toast = NoToast
  /\ succeeded = {}
  /\ switches = 0
  /\ selects = 0

\* the route changes while content is generated
NavigateAway == switches < MaxContentSwitches /\ Navigate

NextContent ==
  \/ NavigateAway
  \/ StatusAnswers
  \/ ClickTopic
  \/ ClickGenerateAll
  \/ ContentAnswers

SpecContent == InitContent /\ [][NextContent]_vars

\* Content generation with every generateContent call answered in the
\* end.  Status answers are left out: after a document change the page
\* stays as the change left it.
NextBatch ==
  \/ Navigate
  \/ ClickTopic
  \/ ClickGenerateAll
  \/ ContentAnswers

SpecBatchLive == InitContent /\ [][NextBatch]_vars /\ WF_vars(ContentAnswers)

(***************************************************************************)
(* Template selection, from ScopeConfirmed.  The initial states are states *)
(* of the page: d1 is at step 3 with a confirmed scope and template tA     *)
(* selected; topics (and content for topic A) may have been generated for  *)
(* d1 under template tB in an earlier pass.                                *)
(***************************************************************************)
InitTemplate ==
  /\ docId = "d1"
  /\ selectedTemplate = "tA"
  /\ analysisStep = 3
  /\ scopeData = [doc |-> "d1", confirmed |-> TRUE]
  /\ generatedTopics = <<>>
  /\ generatedContent = EmptyContent
  /\ contentLoadingState = {}
  /\ chatHistory = <<>>
  /\ isBatchGeneratingRef = FALSE
  /\ isGeneratingAll = FALSE
  /\ isModalOpen = FALSE
  /\ currentTopicForModal = NullTopic
  /\ modalContent = ""
  /\ documentStatus = [d \in Docs |-> IF d = "d1" THEN "processed" ELSE NoStatus]
  /\ statusFetch = [d \in Docs |-> "idle"]
  /\ scopeCache = [d \in Docs |-> IF d = "d1" THEN scopeData ELSE Null]
  /\ \E cached \in BOOLEAN, content \in {Undefined, "c"} :
        /\ topicsCache = [k \in Docs \X TemplateValues |->
                            IF cached /\ k = <<"d1", "tB">>
                              THEN Cached(NewTopics(NamedAndUnnamed))
                              ELSE NotCached]
        /\ contentCache = [k \in Docs \X TemplateValues \X Keys |->
                             IF cached /\ k = <<"d1", "tB", "A">>
                               THEN content ELSE Undefined]
  /\ chatCache = [k \in Docs \X TemplateValues |-> NotCached]
  /\ mutations = EmptyBag
  /\ batch = NoBatch
  /\ issued = NoCall
  /\ toast = NoToast
  /\ succeeded = {}
  /\ switches = 0
  /\ selects = 0

\* the page as rendered
NextTemplate ==
  \/ Navigate
  \/ RefetchStatus
  \/ StatusAnswers
  \/ ChooseTemplate
  \/ ClickGenerateTopics
  \/ TopicsAnswers

SpecTemplate == InitTemplate /\ [][NextTemplate]_vars

\* the handlers as the engine's operations
NextTemplateEngine ==
  \/ CallSelectTemplate
  \/ handleGenerateTopics
  \/ TopicsAnswers

SpecTemplateEngine == InitTemplate /\ [][NextTemplateEngine]_vars

(***************************************************************************)
(* Chat, from TopicsReady: the initial states are those of SpecContent     *)
(* with the topic list [A, Unnamed Topic].                                 *)
(***************************************************************************)
InitChat ==
  /\ InitContent
  /\ generatedTopics = NewTopics(NamedAndUnnamed)

NextChat ==
  \/ Navigate
  \/ StatusAnswers
  \/ SendChat
  \/ ChatAnswers

SpecChat == InitChat /\ [][NextChat]_vars

(***************************************************************************)
(* The topic editor, from TopicsReady with the topic list                  *)
(* [A (with id), Unnamed Topic (without id)].                              *)
(***************************************************************************)
NextEditor ==
  \/ NavigateAway
  \/ StatusAnswers
  \/ ClickTopic
  \/ ContentAnswers
  \/ TypeInEditor
  \/ ClickClose
  \/ ClickSave
  \/ SaveAnswers

SpecEditor == InitChat /\ [][NextEditor]_vars

(***************************************************************************)
(* One document from selection to generated content: every remote          *)
(* operation of the pipeline, each answered with success or failure.       *)
(***************************************************************************)
NextPipeline ==
  \/ RefetchStatus
  \/ StatusAnswers
  \/ ChooseTemplate
  \/ ClickStartAnalysis
  \/ ExtractAnswers
  \/ ClickConfirmScope
  \/ ConfirmAnswers
  \/ ClickGenerateTopics
  \/ TopicsAnswers
  \/ ClickTopic
  \/ ContentAnswers

SpecPipeline == Init /\ [][NextPipeline]_vars

(***************************************************************************)
(* C1  Idempotent resume.                                                  *)
(***************************************************************************)
\* a confirmed scope for d and a topic sequence for (d, t) are in the cache
Resumable(d, t) == IsConfirmed(scopeCache[d]) /\ topicsCache[<<d, t>>].cached

\* d is the active document with template t selected, its status is known
\* to be processed and no request is outstanding
ReEntered(d, t) ==
  /\ docId = d
  /\ selectedTemplate = t
  /\ documentStatus[d] = "processed"
  /\ statusFetch[d] = "idle"
  /\ mutations = EmptyBag

\* C1: whenever document D is (re-)entered with template T selected, its
\* status known to be processed, and a confirmed scope and the topics for
\* (D, T) in the cache, the stage is TopicsReady with the cached topics and
\* the cached content loaded.
C1_IdempotentResume ==
  \A d \in Docs, t \in Templates :
    ReEntered(d, t) /\ Resumable(d, t) =>
      /\ analysisStep = 4
      /\ generatedTopics = topicsCache[<<d, t>>].value
      /\ generatedContent =
           CachedContentOf(d, t, topicsCache[<<d, t>>].value, contentCache)

(***************************************************************************)
(* C2  Stale-response guard.                                               *)
(***************************************************************************)
\* the answer (success or failure) to a request issued for another document
\* than the active one arrives in this step
StaleAnswer ==
  \E r \in BagToSet(mutations) :
    /\ r.doc # docId
    /\ \/ \E ok \in BOOLEAN : extractScopeSettled(r, ok)
       \/ \E ok \in BOOLEAN : confirmScopeSettled(r, ok)
       \/ \E ok \in BOOLEAN, raw \in RawTopicLists :
            generateTopicsSettled(r, ok, raw)
       \/ \E ok \in BOOLEAN, rtopic \in ResponseTopics, content \in Contents :
            generateContentSettled(r, ok, rtopic, content)
       \/ \E ok \in BOOLEAN : chatSettled(r, ok)

\* C2: the answer to a request issued for a document that is no longer the
\* active one changes none of the active document's local state (stage,
\* scope, topics, content map, chat transcript).
C2_StaleResponseDiscarded ==
  [][StaleAnswer =>
       UNCHANGED <<analysisStep, scopeData, generatedTopics, generatedContent,
                   chatHistory>>]_vars

(***************************************************************************)
(* C6  No topic / content generation without a confirmed scope.            *)
(***************************************************************************)
\* C6: in every state in which the stage is ScopeConfirmed or TopicsReady,
\* a generateTopics or generateContent call has just been issued, or topics
\* are shown, a scope exists and its confirmed flag is true.
C6_ConfirmedScopeBehindGeneration ==
  (\/ analysisStep \in {3, 4}
   \/ issued.op \in {"generateTopics", "generateContent"}
   \/ Len(generatedTopics) > 0)
  => IsConfirmed(scopeData)

(***************************************************************************)
(* C7  Topic generation needs a confirmed scope and a template.            *)
(***************************************************************************)
\* C7: a generateTopics call is issued only when the current scope is
\* confirmed and a template is selected; handleGenerateTopics invoked with
\* no scope, an unconfirmed scope or no template issues no call and leaves
\* stage, topics and cache as they are.
C7_GenerateTopicsGuard ==
  [][/\ issued'.op = "generateTopics" =>
          IsConfirmed(scopeData) /\ selectedTemplate # NoTemplate
     /\ handleGenerateTopics
        /\ (~IsConfirmed(scopeData) \/ selectedTemplate = NoTemplate) =>
          /\ issued' = NoCall
          /\ UNCHANGED <<mutations, analysisStep, generatedTopics, scopeCache,
                         topicsCache, contentCache, chatCache>>]_vars

\* topic generation was requested with an unconfirmed scope and rejected
C7_Witness ==
  /\ toast = "Scope must be confirmed before generating topics."
  /\ scopeData # Null
  /\ ~scopeData.confirmed
  /\ selectedTemplate # NoTemplate

(***************************************************************************)
(* C8  Scope confirmation needs an extracted scope.                        *)
(***************************************************************************)
\* C8: handleConfirmScope invoked while no scope has been extracted issues
\* no confirmScope call and leaves stage and scope unchanged; a confirmScope
\* call is only ever issued with a scope present.
C8_ConfirmScopeGuard ==
  [][/\ issued'.op = "confirmScope" => scopeData # Null
     /\ handleConfirmScope /\ scopeData = Null =>
          /\ issued' = NoCall
          /\ UNCHANGED <<mutations, analysisStep, scopeData, scopeCache>>]_vars

\* confirmation was requested with no scope and rejected
C8_Witness ==
  /\ toast = "No scope data to confirm."
  /\ scopeData = Null
  /\ Outstanding("confirmScope") = {}

OutstandingFor(k) ==
  LET S == {r \in Outstanding("generateContent") : r.text = k} IN
  IF S = {} THEN 0 ELSE BagCardinality([r \in S |-> mutations[r]])

C4_NoDuplicateGeneration ==
  [][issued'.op = "generateContent" => issued'.text \notin succeeded]_vars

(***************************************************************************)
(* C5  Generate-all fills in exactly the topics without content.           *)
(***************************************************************************)
\* C5: when a generate-all run over N topics, K of them with content at
\* invocation, ends with all of its calls succeeded (nothing else was in
\* flight when it was invoked and the document was not switched meanwhile),
\* it has issued exactly N-K calls and every topic of the list has content.
C5_BatchFillsAllTopics ==
  [][/\ batch.active
     /\ batch'.done
     /\ batch'.clean
     /\ batch'.sw = switches'
     /\ batch'.count = batch'.calls
     => /\ batch'.calls = batch'.n - batch'.k
        /\ \A i \in 1..Len(generatedTopics') :
              Truthy(generatedContent'[generatedTopics'[i].text])]_vars

(***************************************************************************)
(* C10  Generation only at TopicsReady.                                    *)
(***************************************************************************)
\* C10: a generateContent call is issued only from a state whose stage is
\* TopicsReady (4) with a non-empty topic list.
C10_GenerationOnlyAtTopicsReady ==
  [][issued'.op = "generateContent" =>
        analysisStep = 4 /\ Len(generatedTopics) > 0]_vars

(***************************************************************************)
(* C11  A failed chat send rolls the transcript back.                      *)
(***************************************************************************)
\* C11: when a chat send fails (the document not having been changed since
\* the send), the transcript is again exactly the transcript the send
\* started from - only the user turn of that send is removed - and an
\* error is reported.
C11_FailedSendRollsBack ==
  [][\A r \in Outstanding("chat") :
        chatSettled(r, FALSE) /\ r.sw = switches =>
           /\ chatHistory' = r.history
           /\ chatHistory = Append(r.history, UserTurn(r.text))
           /\ toast' = "Chat error"]_vars

\* a send made after a completed exchange has failed and was rolled back
C11_Witness ==
  /\ toast = "Chat error"
  /\ Len(chatHistory) = 2
  /\ chatHistory[2] = AssistantTurn
  /\ Outstanding("chat") = {}

(***************************************************************************)
(* C12  A document change resets the per-document state.                   *)
(***************************************************************************)
\* what useEffect(docId) leaves behind
DocumentStateReset ==
  /\ analysisStep' = 0
  /\ scopeData' = Null
  /\ generatedTopics' = <<>>
  /\ generatedContent' = EmptyContent
  /\ chatHistory' = <<>>

\* C12: a step that changes the active document leaves stage 0, no scope,
\* no topics, an empty content map, an empty transcript, an empty in-flight
\* set (contentLoadingState) and the batch flags off.
C12_DocumentChangeResets ==
  [][docId' # docId =>
        /\ DocumentStateReset
        /\ contentLoadingState' = {}
        /\ ~isGeneratingAll'
        /\ ~isBatchGeneratingRef']_vars

\* the part of the reset the effect does perform
C12_LocalStateReset == [][docId' # docId => DocumentStateReset]_vars

(***************************************************************************)
(* C13  Content generation is sequential.                                  *)
(***************************************************************************)
\* C13: in every reachable state at most one generateContent request is
\* outstanding.
C13_SequentialGeneration == NumOutstanding("generateContent") <= 1

(***************************************************************************)
(* C14  A failed item does not abort the batch.                            *)
(***************************************************************************)
\* positions after the loop's current one whose topic has no content and
\* is not in flight once request r has settled
LaterMissing(r) ==
  {j \in (batch.idx + 1)..Len(generatedTopics) :
     /\ ~Truthy(generatedContent[generatedTopics[j].text])
     /\ generatedTopics[j].text \notin (contentLoadingState \ {r.text})}

FirstOf(S) == CHOOSE j \in S : \A i \in S : j <= i

\* C14: when a generateContent call of a generate-all run fails (the
\* document unchanged since the run began), the content map is left as it
\* is and the first later topic that has no content and is not in flight
\* is requested next.
C14_FailureDoesNotAbortBatch ==
  [][\A r \in Outstanding("generateContent") :
        /\ r.batch
        /\ batch.sw = switches
        /\ generateContentSettled(r, FALSE, "", "")
        => /\ generatedContent' = generatedContent
           /\ LaterMissing(r) # {} =>
                issued' = Call("generateContent", docId, selectedTemplate,
                               generatedTopics[FirstOf(LaterMissing(r))].text)]_vars

\* C14 for runs invoked with nothing in flight
C14_CleanRunContinues ==
  [][\A r \in Outstanding("generateContent") :
        /\ r.batch
        /\ batch.sw = switches
        /\ batch.clean
        /\ generateContentSettled(r, FALSE, "", "")
        => /\ generatedContent' = generatedContent
           /\ LaterMissing(r) # {} =>
                issued' = Call("generateContent", docId, selectedTemplate,
                               generatedTopics[FirstOf(LaterMissing(r))].text)]_vars

(***************************************************************************)
(* C15  A batch run ends and leaves its flags off.                         *)
(***************************************************************************)
\* C15: provided every call is answered, a generate-all run that has
\* started (isGeneratingAll) ends, and whenever no run is under way -
\* after all successes, after failures, or with nothing to generate - both
\* isGeneratingAll and isBatchGeneratingRef are false.
C15_BatchEndsWithFlagsOff ==
  /\ isGeneratingAll ~> ~isGeneratingAll
  /\ [](~batch.active => ~isGeneratingAll /\ ~isBatchGeneratingRef)

\* a run in which a call failed has ended, with the flags off
C15_Witness ==
  /\ batch.done
  /\ batch.count < batch.calls
  /\ ~isGeneratingAll
  /\ ~isBatchGeneratingRef

(***************************************************************************)
(* C16  A template change replaces the previous template's topics.         *)
(***************************************************************************)
\* the selected template changes from one template to another at step 4
TemplateChangedAtTopicsReady ==
  /\ analysisStep = 4
  /\ selectedTemplate \in Templates
  /\ selectedTemplate' \in Templates
  /\ selectedTemplate' # selectedTemplate

\* the local state is that of the cache under (docId, selectedTemplate),
\* or ScopeConfirmed without topics when nothing is cached there
HydratedOrScopeConfirmed ==
  LET cachedTopics == topicsCache'[<<docId', selectedTemplate'>>] IN
  IF cachedTopics.cached
    THEN /\ generatedTopics' = cachedTopics.value
         /\ generatedContent' =
              CachedContentOf(docId', selectedTemplate', cachedTopics.value,
                              contentCache')
    ELSE /\ analysisStep' = 3
         /\ generatedTopics' = <<>>
         /\ generatedContent' = EmptyContent

\* C16, first sentence: a change of template at TopicsReady hydrates the
\* local state from the cache under the new template or falls back to
\* ScopeConfirmed without topics.
C16_ChangeAtTopicsReady ==
  [][TemplateChangedAtTopicsReady => HydratedOrScopeConfirmed]_vars

\* C16: a change of template at TopicsReady hydrates from the cache under
\* the new template or falls back to ScopeConfirmed, and the topics
\* answered for a request made under template A never become the displayed
\* topics while another template is selected.
C16_TemplateChangeReplacesTopics ==
  [][/\ TemplateChangedAtTopicsReady => HydratedOrScopeConfirmed
     /\ \A r \in Outstanding("generateTopics"), raw \in RawTopicLists :
           /\ generateTopicsSettled(r, TRUE, raw)
           /\ r.tpl # selectedTemplate
           => generatedTopics' = generatedTopics]_vars

(***************************************************************************)
(* C17  De-selecting the template at TopicsReady.                          *)
(***************************************************************************)
\* C17: from step 4 with a confirmed scope, setting the selected template
\* to none leaves step 3, no topics, an empty content map and the same
\* confirmed scope.
C17_DeselectFallsBackToScopeConfirmed ==
  [][/\ analysisStep = 4
     /\ IsConfirmed(scopeData)
     /\ selectedTemplate # NoTemplate
     /\ selectedTemplate' = NoTemplate
     => /\ analysisStep' = 3
        /\ generatedTopics' = <<>>
        /\ generatedContent' = EmptyContent
        /\ scopeData' = scopeData]_vars

\* the template was de-selected after topics had been shown
C17_Witness ==
  /\ selectedTemplate = NoTemplate
  /\ analysisStep = 3
  /\ IsConfirmed(scopeData)
  /\ generatedTopics = <<>>
  /\ \E k \in DOMAIN topicsCache :
        topicsCache[k].cached /\ Len(topicsCache[k].value) > 0 /\ k[2] = "tA"

(***************************************************************************)
(* C18  Status polling stops at a terminal status.                         *)
(***************************************************************************)
\* a status request for document d is issued by this step
StatusRequested(d) == statusFetch[d] = "idle" /\ statusFetch'[d] = "inflight"

\* C18: while the latest status of the active document is neither
\* processed nor error and no status request is under way, the next
\* request is scheduled (the refetch can fire); once processed or error has
\* been observed for a document, a status request is issued for it only by
\* the step that makes it the active document again.
C18_PollingStopsAtTerminal ==
  /\ [](statusFetch[docId] = "idle" /\ documentStatus[docId] \notin Terminal
          => ENABLED RefetchStatus)
  /\ [][\A d \in Docs :
          StatusRequested(d) /\ documentStatus[d] \in Terminal =>
             docId' = d /\ docId # d]_vars

\* a terminal status has been observed for the active document and
\* nothing is scheduled
C18_Witness ==
  /\ documentStatus[docId] \in Terminal
  /\ statusFetch[docId] = "idle"
  /\ switches = 0
  /\ ~ENABLED RefetchStatus

(***************************************************************************)
(* C19  The stage a processed status leads to.                             *)
(***************************************************************************)
\* the stage and scope after a poll of the active document reported
\* processed: step 3 with the cached scope when it is confirmed (step 4
\* when the template effect then loads cached topics), step 2 otherwise,
\* with the cached unconfirmed scope if there is one
StageAfterProcessed ==
  LET existingScope == scopeCache[docId] IN
  IF IsConfirmed(existingScope)
    THEN /\ scopeData' = existingScope
         /\ \/ analysisStep' = 3
            \/ /\ analysisStep' = 4
               /\ topicsCache[<<docId, selectedTemplate>>].cached
    ELSE /\ analysisStep' = 2
         /\ existingScope # Null => scopeData' = existingScope

\* C19: when a poll of the active document reports processed the stage
\* becomes 3 (confirmed scope cached) or 2 (otherwise, a cached
\* unconfirmed scope restored); the stage is never 2 or higher while the
\* latest status of the active document is not processed.
C19_StageFollowsProcessed ==
  /\ [][\A same \in BOOLEAN :
          StatusResponse(docId, "processed", same) => StageAfterProcessed]_vars
  /\ [](analysisStep >= 2 => documentStatus[docId] = "processed")

\* C19 for the poll that reports processed for the first time
C19_FirstProcessedPoll ==
  [][\A same \in BOOLEAN :
        /\ StatusResponse(docId, "processed", same)
        /\ documentStatus[docId] # "processed"
        => StageAfterProcessed]_vars

(***************************************************************************)
(* C20  A successful confirmation.                                         *)
(***************************************************************************)
\* C20: when confirmScope succeeds at step 2 (the document unchanged since
\* the request), the stored scope is the confirmed scope of the document,
\* the same scope is in the cache under the document, and the stage is 3
\* (4 when topics cached for the selected template are loaded at once).
C20_ConfirmAdvancesToScopeConfirmed ==
  [][\A r \in Outstanding("confirmScope") :
        /\ confirmScopeSettled(r, TRUE)
        /\ analysisStep = 2
        /\ r.sw = switches
        => /\ scopeData' = [doc |-> docId, confirmed |-> TRUE]
           /\ scopeCache'[docId] = scopeData'
           /\ \/ analysisStep' = 3
              \/ /\ analysisStep' = 4
                 /\ topicsCache[<<docId, selectedTemplate>>].cached]_vars

\* a scope has just been confirmed from step 2
C20_Witness ==
  /\ toast = "Scope confirmed successfully!"
  /\ analysisStep = 3
  /\ scopeData = [doc |-> docId, confirmed |-> TRUE]
  /\ scopeCache[docId] = scopeData

(***************************************************************************)
(* C23  A failed remote operation leaves the state as it is.               *)
(***************************************************************************)
\* C23: a failed generateContent leaves the content cache and the local
\* content map unchanged, a failed generateTopics leaves topics, topics
\* cache and stage unchanged, and a failed extractScope or confirmScope
\* leaves scope, scope cache and stage unchanged.
C23_FailureLeavesStateUnchanged ==
  [][\A r \in BagToSet(mutations) :
       /\ generateContentSettled(r, FALSE, "", "") =>
            UNCHANGED <<generatedContent, contentCache>>
       /\ generateTopicsSettled(r, FALSE, <<>>) =>
            UNCHANGED <<generatedTopics, topicsCache, analysisStep>>
       /\ extractScopeSettled(r, FALSE) \/ confirmScopeSettled(r, FALSE) =>
            UNCHANGED <<scopeData, scopeCache, analysisStep>>]_vars

\* a generateContent call has failed for a topic that has no content,
\* after content was generated for the other topic
C23_Witness ==
  /\ toast = "Failed to generate content"
  /\ analysisStep = 4
  /\ \E k \in Keys : generatedContent[k] = Undefined
  /\ \E k \in Keys :
        /\ Truthy(generatedContent[k])
        /\ Truthy(contentCache[<<docId, selectedTemplate, k>>])

(***************************************************************************)
(* C24  The chat transcript is cached and survives navigation.             *)
(***************************************************************************)
\* C24: after a successful send (document and template unchanged since the
\* send) the transcript cached under (document, template) is the full
\* transcript, with the new user and assistant turns; and whenever a
\* (document, template) with a cached transcript is the active one again,
\* with its status known and no send outstanding, the transcript shown is
\* the cached one.
C24_TranscriptCachedAndRestored ==
  /\ [][\A r \in Outstanding("chat") :
          /\ chatSettled(r, TRUE)
          /\ r.sw = switches
          /\ r.tpl = selectedTemplate
          => /\ chatHistory' =
                  Append(Append(r.history, UserTurn(r.text)), AssistantTurn)
             /\ chatCache'[<<docId, selectedTemplate>>] = Cached(chatHistory')]_vars
  /\ [](\A d \in Docs, t \in Templates :
          /\ ReEntered(d, t)
          /\ switches > 0
          /\ chatCache[<<d, t>>].cached
          => chatHistory = chatCache[<<d, t>>].value)

\* C24, the local half of its first sentence: a successful send leaves the
\* transcript it started from followed by the user and assistant turns
C24_LocalTranscriptAfterSend ==
  [][\A r \in Outstanding("chat") :
        /\ chatSettled(r, TRUE)
        /\ r.sw = switches
        /\ r.tpl = selectedTemplate
        => chatHistory' =
             Append(Append(r.history, UserTurn(r.text)), AssistantTurn)]_vars

(***************************************************************************)
(* C25  Cache partitioning.                                                *)
(***************************************************************************)
\* the cache keys whose topics / content entry this step writes
TopicsKeysWritten ==
  {k \in DOMAIN topicsCache : topicsCache'[k] # topicsCache[k]}

ContentKeysWritten ==
  {k \in DOMAIN contentCache : contentCache'[k] # contentCache[k]}

\* C25: the answer to a generateTopics or generateContent request issued
\* for document D and template T writes topics and content entries under
\* (D, T) only, also when the document or the selected template has
\* changed while the request was outstanding.
C25_CachePartitioned ==
  [][\A r \in BagToSet(mutations) :
       /\ (\E raw \in RawTopicLists : generateTopicsSettled(r, TRUE, raw)) =>
            \A k \in TopicsKeysWritten : k[1] = r.doc /\ k[2] = r.tpl
       /\ (\E rtopic \in ResponseTopics, content \in Contents :
              generateContentSettled(r, TRUE, rtopic, content)) =>
            \A k \in ContentKeysWritten : k[1] = r.doc /\ k[2] = r.tpl]_vars

\* C25 for the answers that arrive with neither the document nor the
\* template changed since their request
C25_PartitionedWhenUnchanged ==
  [][\A r \in BagToSet(mutations) :
       r.sw = switches /\ r.tpl = selectedTemplate =>
         /\ (\E raw \in RawTopicLists : generateTopicsSettled(r, TRUE, raw)) =>
              \A k \in TopicsKeysWritten : k[1] = r.doc /\ k[2] = r.tpl
         /\ (\E rtopic \in ResponseTopics, content \in Contents :
                generateContentSettled(r, TRUE, rtopic, content)) =>
              \A k \in ContentKeysWritten : k[1] = r.doc /\ k[2] = r.tpl]_vars

(***************************************************************************)
(* C26  Life cycle of the in-flight set.                                   *)
(***************************************************************************)
\* C26: a topic key is in contentLoadingState exactly while a
\* generateContent request for it is outstanding: it is marked when the
\* request starts and cleared when it completes, with success or failure;
\* so with no request outstanding the set is empty.
C26_InFlightWhileOutstanding ==
  \A k \in Keys : k \in contentLoadingState <=> OutstandingFor(k) > 0

\* a generateContent call has failed and nothing is marked in flight
C26_Witness ==
  /\ toast = "Failed to generate content"
  /\ Outstanding("generateContent") = {}
  /\ contentLoadingState = {}
  /\ \E k \in Keys : generatedContent[k] = Undefined

(***************************************************************************)
(* C27  Generated content is stored under the topic's text.                *)
(***************************************************************************)
\* the content generated for request r is in the content map and in the
\* cache of the active (document, template) under the key r.text
StoredUnderTopicText(r, content) ==
  /\ generatedContent'[r.text] = content
  /\ contentCache'[<<docId, selectedTemplate, r.text>>] = content

\* C27: when generateContent succeeds for topic T (document and template
\* unchanged since the request), the generated content is in the local
\* content map and in the cache under T.text.
C27_ContentStoredUnderTopicText ==
  [][\A r \in Outstanding("generateContent"),
        rtopic \in ResponseTopics, content \in Contents :
        /\ generateContentSettled(r, TRUE, rtopic, content)
        /\ r.sw = switches
        /\ r.tpl = selectedTemplate
        => StoredUnderTopicText(r, content)]_vars

\* C27 for the answers that name no topic or the topic of the request
C27_StoredWhenTopicEchoed ==
  [][\A r \in Outstanding("generateContent"),
        rtopic \in {""} \cup Keys, content \in Contents :
        /\ generateContentSettled(r, TRUE, rtopic, content)
        /\ rtopic \in {"", r.text}
        /\ r.sw = switches
        /\ r.tpl = selectedTemplate
        => StoredUnderTopicText(r, content)]_vars

(***************************************************************************)
(* C28  What a chat send passes and appends.                               *)
(***************************************************************************)
\* C28: a send appends the user turn and passes to the chat call the
\* transcript as it was before that turn, all prior turns in order; when
\* the call succeeds (the document unchanged since the send) exactly one
\* assistant turn is appended right after that user turn.
C28_SendPassesPriorTranscript ==
  [][/\ \A m \in ChatInputs :
          handleSendChatMessage(m) /\ issued'.op = "chat" =>
            /\ chatHistory' = Append(chatHistory, UserTurn(m))
            /\ \E r \in BagToSet(mutations') :
                  /\ r.op = "chat"
                  /\ r.cur
                  /\ r.text = m
                  /\ r.history = chatHistory
     /\ \A r \in Outstanding("chat") :
          chatSettled(r, TRUE) /\ r.sw = switches =>
            /\ chatHistory = Append(r.history, UserTurn(r.text))
            /\ chatHistory' = Append(chatHistory, AssistantTurn)]_vars

\* the second send of a conversation is outstanding: its call carries the
\* first exchange and the transcript ends with the new user turn
C28_Witness ==
  \E r \in Outstanding("chat") :
    /\ r.history = <<UserTurn("q"), AssistantTurn>>
    /\ chatHistory = Append(r.history, UserTurn(r.text))

(***************************************************************************)
(* C29  AwaitingProcessing while the document is being processed.          *)
(***************************************************************************)
\* C29: while the latest status of the selected document is a non-terminal
\* one (pending, uploading, processing), the stage is AwaitingProcessing
\* (1).
C29_AwaitingProcessingUntilProcessed ==
  documentStatus[docId] \in Statuses \ Terminal => analysisStep = 1

\* C29 for the statuses the status effect tests for, in the first
\* document session
C29_StageWhileProcessing ==
  switches = 0 /\ documentStatus[docId] = "processing" => analysisStep = 1

(***************************************************************************)
(* C30  The stage moves forward within a document session.                 *)
(***************************************************************************)
\* the step from TopicsReady to ScopeConfirmed by de-selecting the template
DeselectAtTopicsReady ==
  /\ analysisStep = 4
  /\ analysisStep' = 3
  /\ selectedTemplate # NoTemplate
  /\ selectedTemplate' = NoTemplate

\* C30: in a step that keeps the active document the stage does not
\* decrease, except from TopicsReady to ScopeConfirmed when the template
\* is de-selected; in particular not in a step that is the answer to a
\* status poll or a start-analysis request.
C30_StageNeverDecreases ==
  [][docId' = docId =>
        analysisStep' >= analysisStep \/ DeselectAtTopicsReady]_vars

\* C30 for the sessions of the first document in which no poll reports
\* error
C30_ForwardWithoutError ==
  [][switches' = 0 /\ documentStatus'[docId] # "error" =>
        analysisStep' >= analysisStep \/ DeselectAtTopicsReady]_vars

(***************************************************************************)
(* C21  Saving a draft: written at once, kept when the remote save fails.  *)
(***************************************************************************)
\* the draft of the editor is in the content map and in the cache under
\* the active (document, template) and the editor's topic text
DraftStored ==
  /\ generatedContent'[currentTopicForModal.text] = modalContent
  /\ contentCache'[<<docId, selectedTemplate, currentTopicForModal.text>>] =
       modalContent

\* C21: the step that saves the editor's draft writes it to the local
\* content map and to the cache under (document, template, topic text),
\* with the saveContent request of a topic that has an id still outstanding
\* after the step; and the step in which that request fails changes
\* neither the content map nor the cache and reports an error.
C21_SaveKeepsDraftOnFailure ==
  [][/\ handleSaveModalContent /\ currentTopicForModal # NullTopic =>
          /\ DraftStored
          /\ currentTopicForModal.id # NoId =>
                /\ issued'.op = "saveContent"
                /\ \E r \in BagToSet(mutations') :
                      /\ r.op = "saveContent"
                      /\ r.cur
                      /\ r.text = currentTopicForModal.text
                      /\ r.content = modalContent
     /\ \A r \in Outstanding("saveContent") :
          saveContentSettled(r, FALSE) =>
            /\ UNCHANGED <<generatedContent, contentCache>>
            /\ toast' = "Failed to save content"]_vars

\* the remote save of an edited draft has failed; the draft is still in
\* the content map and in the cache
C21_Witness ==
  /\ toast = "Failed to save content"
  /\ currentTopicForModal.id # NoId
  /\ modalContent = "e"
  /\ generatedContent[currentTopicForModal.text] = "e"
  /\ contentCache[<<docId, selectedTemplate, currentTopicForModal.text>>] = "e"

(***************************************************************************)
(* C22  Saving a draft of a topic without id is a cache-only save.         *)
(***************************************************************************)
\* C22: the step that saves the draft of a topic without server id writes
\* the draft to the content map and to the cache, issues no saveContent
\* call (no request is started) and reports a local save; no save ever
\* ends with an error for a topic without id.
C22_CacheOnlySaveWithoutId ==
  [][/\ (/\ handleSaveModalContent
          /\ currentTopicForModal # NullTopic
          /\ currentTopicForModal.id = NoId)
        => /\ DraftStored
           /\ issued' = NoCall
           /\ mutations' = mutations
           /\ toast' =
                "Content saved locally. Topic ID missing for backend save."
     /\ \A r \in Outstanding("saveContent") :
          saveContentSettled(r, FALSE) => r.id # NoId]_vars

\* an edited draft of the topic without id has been saved locally
C22_Witness ==
  /\ toast = "Content saved locally. Topic ID missing for backend save."
  /\ currentTopicForModal = [id |-> NoId, text |-> UnnamedTopic]
  /\ generatedContent[UnnamedTopic] = "e"
  /\ contentCache[<<docId, selectedTemplate, UnnamedTopic>>] = "e"
  /\ Outstanding("saveContent") = {}
  /\ ~isModalOpen

(***************************************************************************)
(* C31  The viewer opens for individually triggered generations only.      *)
(***************************************************************************)
\* the viewer is open on the topic of request r with the given content
ViewerOpenedOn(r, content) ==
  /\ isModalOpen'
  /\ currentTopicForModal' = [id |-> r.id, text |-> r.text]
  /\ modalContent' = content

\* C31: the step in which a generateContent request succeeds leaves the
\* viewer as it is when the request was issued by the batch run, and opens
\* it on the request's topic with the generated content when the request
\* was issued by a click on that topic.
C31_ViewerOpensIffIndividual ==
  [][\A r \in Outstanding("generateContent"),
        rtopic \in ResponseTopics, content \in Contents :
        generateContentSettled(r, TRUE, rtopic, content) =>
          IF r.batch THEN UNCHANGED modalVars
          ELSE ViewerOpenedOn(r, content)]_vars

\* C31 for the requests of the batch run, and for the requests of a click
\* that are answered while no batch run is in progress
C31_OpensOutsideBatchRun ==
  [][\A r \in Outstanding("generateContent"),
        rtopic \in ResponseTopics, content \in Contents :
        generateContentSettled(r, TRUE, rtopic, content) =>
          /\ r.batch => UNCHANGED modalVars
          /\ ~r.batch /\ ~batch.active => ViewerOpenedOn(r, content)]_vars

(***************************************************************************)
(* C32  TopicsReady has topics.                                            *)
(***************************************************************************)
\* C32: whenever the stage is TopicsReady (4) the local topic sequence is
\* non-empty.
C32_TopicsAtTopicsReady == analysisStep = 4 => Len(generatedTopics) > 0

\* the page at stage 4 without topics: the Topic Generation card (stage 3
\* only), the template selector (stages up to 3) and the Generated Topics
\* card (a non-empty list) are all unavailable
C32_StuckAtTopicsReady ==
  /\ analysisStep = 4
  /\ Len(generatedTopics) = 0
  /\ ~GenerateTopicsEnabled
  /\ ~SelectEnabled
  /\ ~TopicsShown

\* C32 with the empty answers set aside: stage 4 without topics only when
\* generateTopics has answered with an empty list
C32_EmptyOnlyFromEmptyAnswer ==
  analysisStep = 4 /\ Len(generatedTopics) = 0 =>
    \E k \in Docs \X TemplateValues : topicsCache[k] = Cached(<<>>)

\* the page is never in the state C32_StuckAtTopicsReady
C32_NeverStuck == ~C32_StuckAtTopicsReady

(***************************************************************************)
(* C33  The transcript alternates user and assistant turns.                *)
(***************************************************************************)
\* h is user, assistant, user, assistant, ... starting with a user turn
Alternates(h) ==
  \A i \in 1..Len(h) :
     h[i].role = IF i % 2 = 1 THEN "user" ELSE "assistant"

\* complete exchanges when no send is outstanding, complete exchanges and
\* one user turn while a send is outstanding
WellFormedTranscript ==
  /\ Alternates(chatHistory)
  /\ IF Outstanding("chat") = {} THEN Len(chatHistory) % 2 = 0
     ELSE Len(chatHistory) % 2 = 1

\* C33: whenever no chat send is pending the transcript has even length and
\* alternates user, assistant, starting with a user turn; while a send is
\* pending it is such a sequence followed by exactly one user turn; also
\* after document changes made while a send is outstanding.
C33_TranscriptAlternates == WellFormedTranscript

\* C33 until the first document change
C33_AlternatesWithinDocument == switches = 0 => WellFormedTranscript

\* the alternation alone, whatever is outstanding
C33_TurnsAlternate == Alternates(chatHistory)

(***************************************************************************)
(* C34  The content map and the cache agree.                               *)
(***************************************************************************)
\* every key with local content has the same string in the cache under
\* the active (document, template)
MapAgreesWithCache ==
  \A k \in Keys :
     Truthy(generatedContent[k]) =>
       contentCache[<<docId, selectedTemplate, k>>] = generatedContent[k]

\* C34: for the active (document, template), every topic key with local
\* content has the same string cached under (document, template, key), after
\* any sequence of generate, hydrate and save steps, the late answers of
\* remote saves included.
C34_ContentMapAgreesWithCache == MapAgreesWithCache

\* C34 until the first document change (it holds for generation and
\* hydration, without the editor)
C34_AgreesWithinDocument == switches = 0 => MapAgreesWithCache

(***************************************************************************)
(* C35  One call per topic key in a batch run.                             *)
(***************************************************************************)
\* the positions of the list for which run b has issued a call so far:
\* those up to the loop's position that passed the loop's test
BatchCalled(b) ==
  {i \in 1..b.idx : /\ b.topics[i].text \notin b.content
                    /\ b.topics[i].text \notin b.loading}

\* C35: within one batch run at most one generateContent call is issued
\* per distinct topic key, also when several topics of the list have the
\* same text.
C35_OneCallPerKeyInBatch ==
  batch.active =>
    \A i, j \in BatchCalled(batch) :
       i # j => batch.topics[i].text # batch.topics[j].text

\* the run issues exactly one call for each position that passed the test
C35_OneCallPerPosition ==
  batch.active => batch.calls = Cardinality(BatchCalled(batch))

(***************************************************************************)
(* C36  The confirmScope call carries the pages of the scope.              *)
(***************************************************************************)
\* C36: the confirmScope request issued for a document carries the source
\* pages of the scope being confirmed.
C36_ConfirmCarriesSourcePages ==
  [][issued'.op = "confirmScope" =>
        \E r \in BagToSet(mutations') :
           /\ r.op = "confirmScope"
           /\ r.cur
           /\ r.doc = docId
           /\ r.pages = SourcePages(scopeData)]_vars

\* what the request does carry: the active document and no pages
C36_ConfirmCarriesNoPages ==
  [][issued'.op = "confirmScope" =>
        \E r \in BagToSet(mutations') :
           /\ r.op = "confirmScope"
           /\ r.cur
           /\ r.doc = docId
           /\ r.pages = <<>>]_vars

(***************************************************************************)
(* C37  The progress flags are monotone.                                   *)
(***************************************************************************)
\* every step before a step reported complete or current is reported
\* complete
FlagsMonotone ==
  \A k \in PipelineSteps :
     getStepStatusDisplay(k) \in {"complete", "current"} =>
       \A j \in 1..(k - 1) : getStepStatusDisplay(j) = "complete"

\* C37: in every state whose status is not error, if step k is reported
\* complete or current then every step before k is reported complete, also
\* while an extractScope or generateTopics request is pending.
C37_ProgressFlagsMonotone ==
  Rendered /\ documentStatus[docId] # "error" => FlagsMonotone

\* C37 for the states of the first document, processed, with no
\* extractScope or generateTopics request pending
C37_MonotoneWhenIdle ==
  /\ switches = 0
  /\ documentStatus[docId] = "processed"
  /\ ~IsPending("extractScope")
  /\ ~IsPending("generateTopics")
  => FlagsMonotone

====
